---- MODULE Spec2Model ----
(***************************************************************************)
(* Model of ra-data-treeql (src/src/index.ts, latest version, lines        *)
(* 380-630): the filter compiler formatFilter / formatFilterArguments, the *)
(* query-string builder formatParams, and the TreeQLDataProvider class     *)
(* with its nine operations on top of an injected HTTP client.             *)
(*                                                                         *)
(* JavaScript strings are sequences of one-character strings, so that      *)
(* slice, join, template literals and percent-encoding are computed        *)
(* character by character.  JavaScript values are tagged records.          *)
(***************************************************************************)
EXTENDS Integers, Sequences, FiniteSets, TLC

(***************************************************************************)
(* Bounds of the model.                                                    *)
(***************************************************************************)
\* largest one-digit number used as a filter value or array element
MaxNum == 1
\* longest array used as a filter value
MaxArrLen == 3
\* longest field name in a filter key
MaxFieldLen == 1
\* largest number of keys in a filter
MaxFilterLen == 2
\* largest number of trailing slashes of the constructor argument
MaxSlashes == 2
\* number of invocation slots of the provider
NumInv == 1
MaxConcurrent == 2

(***************************************************************************)
(* JavaScript values.                                                      *)
(***************************************************************************)
Num(n) == [t |-> "number", n |-> n]
Bool(b) == [t |-> "boolean", b |-> b]
Str(s) == [t |-> "string", s |-> s]
Arr(a) == [t |-> "array", a |-> a]
Null == [t |-> "null"]
Undefined == [t |-> "undefined"]
\* an object is the sequence of its own enumerable [key, value] entries,
\* in the order Object.entries enumerates them
Obj(e) == [t |-> "object", e |-> e]

\* a completed evaluation: a returned value, or a thrown error
Ret(v) == [ok |-> TRUE, val |-> v]
Throw(name, message) == [ok |-> FALSE, err |-> [name |-> name, message |-> message]]

Min(a, b) == IF a < b THEN a ELSE b
Max(a, b) == IF a > b THEN a ELSE b

\* String.prototype.slice(start, end) on a sequence of characters
Slice(s, start, end) ==
    LET len == Len(s)
        from == IF start < 0 THEN Max(len + start, 0) ELSE Min(start, len)
        to == IF end < 0 THEN Max(len + end, 0) ELSE Min(end, len)
    IN  IF from < to THEN SubSeq(s, from + 1, to) ELSE << >>

\* String.prototype.slice(start) with the end omitted
SliceFrom(s, start) == Slice(s, start, Len(s))

\* String.prototype.endsWith(c) for a one-character search string
EndsWith(s, c) == Len(s) > 0 /\ s[Len(s)] = c

Digit(d) == <<"0", "1", "2", "3", "4", "5", "6", "7", "8", "9">>[d + 1]

\* Number.prototype.toString for a natural number
RECURSIVE NumStr(_)
NumStr(n) == IF n < 10 THEN <<Digit(n)>> ELSE NumStr(n \div 10) \o <<Digit(n % 10)>>

\* String(v) and Array.prototype.join(sep): join maps null and undefined to
\* the empty string and every other element to its string form
RECURSIVE ToStr(_)
RECURSIVE Join(_, _)
ToStr(v) ==
    CASE v.t = "string" -> v.s
      [] v.t = "number" -> NumStr(v.n)
      [] v.t = "boolean" -> IF v.b THEN <<"t", "r", "u", "e">> ELSE <<"f", "a", "l", "s", "e">>
      [] v.t = "array" -> Join(v.a, <<",">>)
      [] v.t = "null" -> <<"n", "u", "l", "l">>
      [] v.t = "undefined" -> <<"u", "n", "d", "e", "f", "i", "n", "e", "d">>
      [] v.t = "object" -> <<"[", "o", "b", "j", "e", "c", "t", " ", "O", "b", "j", "e", "c", "t", "]">>
Join(a, sep) ==
    IF a = << >> THEN << >>
    ELSE LET h == IF Head(a).t \in {"null", "undefined"} THEN << >> ELSE ToStr(Head(a))
         IN  IF Len(a) = 1 THEN h ELSE h \o sep \o Join(Tail(a), sep)

\* !!v
Truthy(v) ==
    CASE v.t = "string" -> v.s # << >>
      [] v.t = "number" -> v.n # 0
      [] v.t = "boolean" -> v.b
      [] v.t = "array" -> TRUE
      [] v.t = "object" -> TRUE
      [] v.t = "null" -> FALSE
      [] v.t = "undefined" -> FALSE

\* Array.isArray(v)
IsArray(v) == v.t = "array"

\* a[i] for a zero-based index: undefined when out of range
Index(a, i) == IF i < Len(a) THEN a[i + 1] ELSE Undefined

\* Array.prototype.filter(v => !!v)
RECURSIVE FilterTruthy(_)
FilterTruthy(a) ==
    IF a = << >> THEN << >>
    ELSE (IF Truthy(Head(a)) THEN <<Head(a)>> ELSE << >>) \o FilterTruthy(Tail(a))

(***************************************************************************)
(* The filter compiler.                                                    *)
(***************************************************************************)
filterOperators ==
    << <<"c", "s">>, <<"s", "w">>, <<"e", "w">>, <<"e", "q">>, <<"l", "t">>, <<"l", "e">>,
       <<"g", "e">>, <<"g", "t">>, <<"b", "t">>, <<"i", "n">>, <<"i", "s">> >>

searchOperator == <<"q">>
APISearchParam == <<"s", "e", "a", "r", "c", "h">>
APIFilterParam == <<"f", "i", "l", "t", "e", "r">>

isValidFilterOperator(value) == \E i \in 1..Len(filterOperators) : filterOperators[i] = value

BetweenMessage == "Array expected as filter value for filter type \"between\" (bt)"
InMessage == "Array expected as filter value for filter type \"in\""

\* mutants of formatFilterArguments: "in" raising the message of "between";
\* "bt" joining every element; "in" keeping the first two elements only;
\* "is" handing the value on
formatFilterArguments_InRaisesBetween(operator, value) ==
    CASE operator = <<"b", "t">> ->
            IF ~IsArray(value) THEN Throw("TypeError", BetweenMessage)
            ELSE Ret(Str(ToStr(Index(value.a, 0)) \o <<",">> \o ToStr(Index(value.a, 1))))
      [] operator = <<"i", "n">> ->
            IF ~IsArray(value) THEN Throw("TypeError", BetweenMessage)
            ELSE Ret(Str(Join(value.a, <<",">>)))
      [] operator = <<"i", "s">> -> Ret(Null)
      [] OTHER -> Ret(value)

formatFilterArguments_BetweenJoinsAll(operator, value) ==
    CASE operator = <<"b", "t">> ->
            IF ~IsArray(value) THEN Throw("TypeError", BetweenMessage)
            ELSE Ret(Str(Join(value.a, <<",">>)))
      [] operator = <<"i", "n">> ->
            IF ~IsArray(value) THEN Throw("TypeError", InMessage)
            ELSE Ret(Str(Join(value.a, <<",">>)))
      [] operator = <<"i", "s">> -> Ret(Null)
      [] OTHER -> Ret(value)

formatFilterArguments_InKeepsTwo(operator, value) ==
    CASE operator = <<"b", "t">> ->
            IF ~IsArray(value) THEN Throw("TypeError", BetweenMessage)
            ELSE Ret(Str(ToStr(Index(value.a, 0)) \o <<",">> \o ToStr(Index(value.a, 1))))
      [] operator = <<"i", "n">> ->
            IF ~IsArray(value) THEN Throw("TypeError", InMessage)
            ELSE Ret(Str(ToStr(Index(value.a, 0)) \o <<",">> \o ToStr(Index(value.a, 1))))
      [] operator = <<"i", "s">> -> Ret(Null)
      [] OTHER -> Ret(value)

formatFilterArguments_IsKeepsValue(operator, value) ==
    CASE operator = <<"b", "t">> ->
            IF ~IsArray(value) THEN Throw("TypeError", BetweenMessage)
            ELSE Ret(Str(ToStr(Index(value.a, 0)) \o <<",">> \o ToStr(Index(value.a, 1))))
      [] operator = <<"i", "n">> ->
            IF ~IsArray(value) THEN Throw("TypeError", InMessage)
            ELSE Ret(Str(Join(value.a, <<",">>)))
      [] OTHER -> Ret(value)

formatFilterArguments(operator, value) ==
    CASE operator = <<"b", "t">> ->
            IF ~IsArray(value) THEN Throw("TypeError", BetweenMessage)
            ELSE Ret(Str(ToStr(Index(value.a, 0)) \o <<",">> \o ToStr(Index(value.a, 1))))
      [] operator = <<"i", "n">> ->
            IF ~IsArray(value) THEN Throw("TypeError", InMessage)
            ELSE Ret(Str(Join(value.a, <<",">>)))
      [] operator = <<"i", "s">> -> Ret(Null)
      [] OTHER -> Ret(value)

\* [field, operator, arguments].filter(v => !!v).join(",")
FilterClause(field, operator, arguments) ==
    Str(Join(FilterTruthy(<<Str(field), Str(operator), arguments>>), <<",">>))

\* mutant of SearchPair: the search key emitted as a filter parameter
SearchPair_AsFilter(value) == <<APIFilterParam, value>>

\* [APISearchParam, value]: the value is handed on as it is
SearchPair(value) == <<APISearchParam, value>>

\* mutant of IsOperatorKey: the separator in front of the suffix not tested
IsOperatorKey_AnySeparator(key) == isValidFilterOperator(SliceFrom(key, -2))

\* key.slice(-3, -2) === "_" && isValidFilterOperator(suffix)
IsOperatorKey(key) ==
    Slice(key, -3, -2) = <<"_">> /\ isValidFilterOperator(SliceFrom(key, -2))

\* key.slice(-4, -2) === "_n" && isValidFilterOperator(suffix)
IsNegatedKey(key) ==
    Slice(key, -4, -2) = <<"_", "n">> /\ isValidFilterOperator(SliceFrom(key, -2))

\* mutant of NegatedField: three characters removed instead of four
NegatedField_KeepsSeparator(key) == Slice(key, 0, -3)

\* key.slice(0, -3) and key.slice(0, -4)
OperatorField(key) == Slice(key, 0, -3)
NegatedField(key) == Slice(key, 0, -4)

\* `${key},eq,${value}`
ImplicitEquals(key, value) == Str(key \o <<",", "e", "q", ",">> \o ToStr(value))

\* the callback formatFilter maps over Object.entries(filter)
formatFilterEntry(key, value) ==
    LET suffix == SliceFrom(key, -2)
    IN  IF key = searchOperator THEN Ret(SearchPair(value))
        ELSE IF IsOperatorKey(key)
        THEN LET args == formatFilterArguments(suffix, value)
             IN  IF ~args.ok THEN args
                 ELSE Ret(<<APIFilterParam, FilterClause(OperatorField(key), suffix, args.val)>>)
        ELSE IF IsNegatedKey(key)
        THEN LET args == formatFilterArguments(suffix, value)
             IN  IF ~args.ok THEN args
                 ELSE Ret(<<APIFilterParam,
                            FilterClause(NegatedField(key), <<"n">> \o suffix, args.val)>>)
        ELSE Ret(<<APIFilterParam, ImplicitEquals(key, value)>>)

\* filter is the sequence Object.entries(filter) of [key, value] entries;
\* map stops at the first entry whose callback throws
RECURSIVE formatFilter(_)
formatFilter(filter) ==
    IF filter = << >> THEN Ret(<< >>)
    ELSE LET first == formatFilterEntry(Head(filter).key, Head(filter).value)
         IN  IF ~first.ok THEN first
             ELSE LET rest == formatFilter(Tail(filter))
                  IN  IF ~rest.ok THEN rest ELSE Ret(<<first.val>> \o rest.val)


(***************************************************************************)
(* Query-string assembly.                                                  *)
(***************************************************************************)
\* characters the application/x-www-form-urlencoded serializer escapes, with
\* the two hexadecimal digits of their code (space becomes "+" instead)
Escapes ==
    ("," :> <<"2", "C">>) @@ ("&" :> <<"2", "6">>) @@ ("=" :> <<"3", "D">>) @@
    ("%" :> <<"2", "5">>) @@ ("+" :> <<"2", "B">>) @@ ("/" :> <<"2", "F">>) @@
    (":" :> <<"3", "A">>) @@ ("?" :> <<"3", "F">>) @@ ("[" :> <<"5", "B">>) @@
    ("]" :> <<"5", "D">>) @@ ("\"" :> <<"2", "2">>) @@ ("{" :> <<"7", "B">>) @@
    ("}" :> <<"7", "D">>)

EncodeChar(c) ==
    IF c = " " THEN <<"+">>
    ELSE IF c \in DOMAIN Escapes THEN <<"%">> \o Escapes[c]
    ELSE <<c>>

\* concatenation of the sequences ss[lo], ..., ss[hi]
RECURSIVE FlatRange(_, _, _)
FlatRange(ss, lo, hi) ==
    IF lo > hi THEN << >>
    ELSE IF lo = hi THEN ss[lo]
    ELSE LET mid == (lo + hi) \div 2
         IN  FlatRange(ss, lo, mid) \o FlatRange(ss, mid + 1, hi)

Flat(ss) == FlatRange(ss, 1, Len(ss))

Encode(s) == Flat([j \in 1..Len(s) |-> EncodeChar(s[j])])

\* URLSearchParams.prototype.toString of a list of [name, value] pairs
RECURSIVE Serialize(_)
Serialize(pairs) ==
    IF pairs = << >> THEN << >>
    ELSE LET p == Encode(Head(pairs)[1]) \o <<"=">> \o Encode(Head(pairs)[2])
         IN  IF Len(pairs) = 1 THEN p ELSE p \o <<"&">> \o Serialize(Tail(pairs))

\* decodeURIComponent: every %XX escape is replaced by its character; a
\* "%" that does not start an escape is a malformed URI.  The two
\* characters after a "%" belong to its escape.
IsEscapeAt(s, j) ==
    /\ s[j] = "%"
    /\ j + 2 <= Len(s)
    /\ \E c \in DOMAIN Escapes : Escapes[c] = <<s[j + 1], s[j + 2]>>

DecodeAt(s, j) ==
    IF s[j] = "%" THEN <<CHOOSE c \in DOMAIN Escapes : Escapes[c] = <<s[j + 1], s[j + 2]>> >>
    ELSE IF (j > 1 /\ s[j - 1] = "%") \/ (j > 2 /\ s[j - 2] = "%") THEN << >>
    ELSE <<s[j]>>

\* mutant of decodeURIComponent: the escapes left as they are
decodeURIComponent_KeepsEscapes(s) == Ret(s)

decodeURIComponent(s) ==
    IF \E j \in 1..Len(s) : s[j] = "%" /\ ~IsEscapeAt(s, j)
    THEN Throw("URIError", "URI malformed")
    ELSE Ret(Flat([j \in 1..Len(s) |-> DecodeAt(s, j)]))

\* new URLSearchParams(rest) and urlParams.append(key, value): every value
\* is converted to its string form
RECURSIVE ToPairs(_)
ToPairs(entries) ==
    IF entries = << >> THEN << >>
    ELSE <<  <<Head(entries).key, ToStr(Head(entries).value)>>  >> \o ToPairs(Tail(entries))

RECURSIVE StrPairs(_)
StrPairs(pairs) ==
    IF pairs = << >> THEN << >>
    ELSE <<  <<Head(pairs)[1], ToStr(Head(pairs)[2])>>  >> \o StrPairs(Tail(pairs))

ReservedMetaKeys == { <<"o", "r", "d", "e", "r">>, <<"p", "a", "g", "e">>, <<"f", "i", "l", "t", "e", "r">> }

\* Object.entries(meta ?? {}).filter(([key]) => !["order", "page", "filter"].includes(key))
RECURSIVE MetaEntries(_)
MetaEntries(entries) ==
    IF entries = << >> THEN << >>
    ELSE (IF Head(entries).key \in ReservedMetaKeys THEN << >> ELSE <<Head(entries)>>)
         \o MetaEntries(Tail(entries))

\* the value of formatFilter(filter) inside formatParams; NotCalled when the
\* guard "filter &&" skips the call
NotCalled == [ok |-> TRUE, skipped |-> TRUE]
CompiledFilter(params) ==
    IF Truthy(params.filter) THEN formatFilter(params.filter.e) ELSE NotCalled

\* mutant of formatParams: the "?" written also in front of an empty query
\* string
formatParams_AlwaysMark(params) ==
    LET compiled == CompiledFilter(params)
        meta == IF params.meta.t \in {"null", "undefined"} THEN << >> ELSE params.meta.e
    IN  IF ~compiled.ok THEN compiled
        ELSE LET urlParams == ToPairs(params.rest)
                              \o (IF compiled = NotCalled THEN << >> ELSE StrPairs(compiled.val))
                              \o ToPairs(MetaEntries(meta))
                 decoded == decodeURIComponent(Serialize(urlParams))
             IN  IF ~decoded.ok THEN decoded ELSE Ret(<<"?">> \o decoded.val)

\* params is [rest, filter, meta]: rest holds the entries of params other
\* than filter and meta
formatParams(params) ==
    LET compiled == CompiledFilter(params)
        meta == IF params.meta.t \in {"null", "undefined"} THEN << >> ELSE params.meta.e
    IN  IF ~compiled.ok THEN compiled
        ELSE LET urlParams == ToPairs(params.rest)
                              \o (IF compiled = NotCalled THEN << >> ELSE StrPairs(compiled.val))
                              \o ToPairs(MetaEntries(meta))
                 urlParamsString == Serialize(urlParams)
                 decoded == decodeURIComponent(urlParamsString)
             IN  IF urlParamsString = << >> THEN Ret(<< >>)
                 ELSE IF ~decoded.ok THEN decoded
                 ELSE Ret(<<"?">> \o decoded.val)

(***************************************************************************)
(* Objects: property read, property write and spread.                      *)
(***************************************************************************)
Entry(k, v) == [key |-> k, value |-> v]

HasKey(entries, k) == \E j \in 1..Len(entries) : entries[j].key = k

\* v[k]: undefined for a missing property and for a value without properties
Get(v, k) ==
    IF v.t = "object" /\ HasKey(v.e, k)
    THEN v.e[CHOOSE j \in 1..Len(v.e) : v.e[j].key = k].value
    ELSE Undefined

\* definition of property k in an object literal: an existing key keeps its
\* position and takes the new value, a new key is appended
ObjSet(entries, k, v) ==
    IF HasKey(entries, k)
    THEN [j \in 1..Len(entries) |-> IF entries[j].key = k THEN Entry(k, v) ELSE entries[j]]
    ELSE Append(entries, Entry(k, v))

RECURSIVE SetAll(_, _)
SetAll(entries, more) ==
    IF more = << >> THEN entries
    ELSE SetAll(ObjSet(entries, Head(more).key, Head(more).value), Tail(more))

\* { ...entries, ...src }: spreading null or undefined adds nothing
Spread(entries, src) == IF src.t = "object" THEN SetAll(entries, src.e) ELSE entries

Quote(s) == <<"\"">> \o s \o <<"\"">>

\* JSON.stringify for the values of the model (strings hold no character
\* that needs a JSON escape); properties whose value is undefined are left
\* out and an undefined array element is written as null
RECURSIVE JSONstringify(_)
RECURSIVE JSONelements(_)
RECURSIVE JSONmembers(_)
JSONstringify(v) ==
    CASE v.t = "string" -> Quote(v.s)
      [] v.t = "number" -> NumStr(v.n)
      [] v.t = "boolean" -> ToStr(v)
      [] v.t = "null" -> ToStr(Null)
      [] v.t = "array" -> <<"[">> \o JSONelements(v.a) \o <<"]">>
      [] v.t = "object" -> <<"{">> \o JSONmembers(v.e) \o <<"}">>
JSONelements(a) ==
    IF a = << >> THEN << >>
    ELSE LET h == IF Head(a).t = "undefined" THEN ToStr(Null) ELSE JSONstringify(Head(a))
         IN  IF Len(a) = 1 THEN h ELSE h \o <<",">> \o JSONelements(Tail(a))
JSONmembers(e) ==
    IF e = << >> THEN << >>
    ELSE IF Head(e).value.t = "undefined" THEN JSONmembers(Tail(e))
    ELSE LET h == Quote(Head(e).key) \o <<":">> \o JSONstringify(Head(e).value)
             r == JSONmembers(Tail(e))
         IN  IF r = << >> THEN h ELSE h \o <<",">> \o r

\* body: JSON.stringify(data); JSON.stringify(undefined) is undefined
Body(data) == IF data.t = "undefined" THEN Undefined ELSE Str(JSONstringify(data))

(***************************************************************************)
(* TreeQLDataProvider: constructor and URL builder.                        *)
(***************************************************************************)
\* mutant of Constructor: up to two trailing slashes removed
Constructor_StripsTwice(argApiUrl) ==
    LET once == IF EndsWith(argApiUrl, "/") THEN Slice(argApiUrl, 0, -1) ELSE argApiUrl
    IN  IF EndsWith(once, "/") THEN Slice(once, 0, -1) ELSE once

\* this.apiUrl as set by the constructor from its argument _apiUrl
Constructor(argApiUrl) ==
    IF EndsWith(argApiUrl, "/") THEN Slice(argApiUrl, 0, -1) ELSE argApiUrl

K_order == <<"o", "r", "d", "e", "r">>
K_page == <<"p", "a", "g", "e">>
K_data == <<"d", "a", "t", "a">>
K_total == <<"t", "o", "t", "a", "l">>
K_id == <<"i", "d">>
K_records == <<"r", "e", "c", "o", "r", "d", "s">>
K_results == <<"r", "e", "s", "u", "l", "t", "s">>

\* the IParams object an operation hands to getURL: rest holds its entries
\* other than id, ids, filter and meta
IParams(id, ids, rest, filter, meta) ==
    [id |-> id, ids |-> ids, rest |-> rest, filter |-> filter, meta |-> meta]

\* mutant of RecordSegment: an id equal to the one before it is left out
RecordSegment_DropsDuplicates(params) ==
    IF Truthy(params.id) THEN <<"/">> \o ToStr(params.id)
    ELSE IF Truthy(params.ids)
    THEN LET a == params.ids.a
             keep == SelectSeq([j \in 1..Len(a) |-> j], LAMBDA j : j = 1 \/ a[j - 1] # a[j])
         IN  <<"/">> \o Join([k \in 1..Len(keep) |-> a[keep[k]]], <<",">>)
    ELSE << >>

\* const record = id ? `/${id}` : ids ? `/${ids.join(",")}` : ""
RecordSegment(params) ==
    IF Truthy(params.id) THEN <<"/">> \o ToStr(params.id)
    ELSE IF Truthy(params.ids) THEN <<"/">> \o Join(params.ids.a, <<",">>)
    ELSE << >>

\* mutant of getURL: a failure of formatParams swallowed, the URL built
\* without a query string
getURL_SwallowsError(base, resource, params) ==
    LET query == formatParams([rest |-> params.rest, filter |-> params.filter,
                               meta |-> params.meta])
    IN  Ret(base \o <<"/", "r", "e", "c", "o", "r", "d", "s", "/">> \o resource
            \o (IF Truthy(params.id) THEN <<"/">> \o ToStr(params.id)
                ELSE IF Truthy(params.ids) THEN <<"/">> \o Join(params.ids.a, <<",">>)
                ELSE << >>)
            \o (IF query.ok THEN query.val ELSE << >>))

\* const { id, ids, ...rest } = params: the argument of formatParams
QueryParams(params) == [rest |-> params.rest, filter |-> params.filter, meta |-> params.meta]

getURL(base, resource, params) ==
    LET query == formatParams(QueryParams(params))
    IN  IF ~query.ok THEN query
        ELSE Ret(base \o <<"/", "r", "e", "c", "o", "r", "d", "s", "/">> \o resource
                 \o RecordSegment(params) \o query.val)

\* `${a},${b}`
Pair(a, b) == Str(ToStr(a) \o <<",">> \o ToStr(b))

ListRest(params) ==
    << Entry(K_order, Pair(params.sort.field, params.sort.order)),
       Entry(K_page, Pair(params.pagination.page, params.pagination.perPage)) >>

\* the argument of getURL in each operation
getListParams(params) ==
    IParams(Undefined, Undefined, ListRest(params), params.filter, params.meta)
\* mutant of getManyReferenceParams: the caller's filter spread over the
\* reference, { [target]: id, ...filter }
getManyReferenceParams_CallerWins(params) ==
    IParams(Undefined, Undefined, ListRest(params),
            Obj(Spread(<<Entry(params.target, params.id)>>, params.filter)), params.meta)

getManyReferenceParams(params) ==
    IParams(Undefined, Undefined, ListRest(params),
            Obj(ObjSet(Spread(<< >>, params.filter), params.target, params.id)), params.meta)
IdParams(params) == IParams(params.id, Undefined, << >>, Undefined, params.meta)
IdsParams(params) == IParams(Undefined, params.ids, << >>, Undefined, params.meta)
createParams(params) == IParams(Undefined, Undefined, << >>, Undefined, params.meta)

URLParams(op, params) ==
    CASE op = "getList" -> getListParams(params)
      [] op = "getManyReference" -> getManyReferenceParams(params)
      [] op \in {"getOne", "update", "delete"} -> IdParams(params)
      [] op \in {"getMany", "updateMany", "deleteMany"} -> IdsParams(params)
      [] op = "create" -> createParams(params)

\* the second argument of this.httpClient in each operation
Options(op, params) ==
    CASE op \in {"getList", "getOne", "getMany", "getManyReference"} -> Undefined
      [] op \in {"update", "updateMany"} -> [method |-> "PUT", body |-> Body(params.data)]
      [] op = "create" -> [method |-> "POST", body |-> Body(params.data)]
      [] op \in {"delete", "deleteMany"} -> [method |-> "DELETE", body |-> Undefined]

(***************************************************************************)
(* The continuation of each operation after the HTTP client has resolved   *)
(* with { json }.                                                          *)
(***************************************************************************)
DestructureError == Throw("TypeError", "Cannot destructure property 'records'")

\* const { json: { records, results } } = ...; return { data: records, total: results }
getListResult(json) ==
    IF json.t \in {"null", "undefined"} THEN DestructureError
    ELSE Ret(Obj(<<Entry(K_data, Get(json, K_records)), Entry(K_total, Get(json, K_results))>>))

getOneResult(json) == Ret(Obj(<<Entry(K_data, json)>>))

\* mutant of getManyResult: the body returned as it came
getManyResult_PassesThrough(json) == Ret(Obj(<<Entry(K_data, json)>>))

\* return { data: Array.isArray(json) ? json : [json] }
getManyResult(json) ==
    Ret(Obj(<<Entry(K_data, IF IsArray(json) THEN json ELSE Arr(<<json>>))>>))

\* mutant of updateResult: previousData spread after data
updateResult_PreviousDataLast(params) ==
    Ret(Obj(<<Entry(K_data,
        Obj(Spread(Spread(<<Entry(K_id, params.id)>>, params.data), params.previousData)))>>))

\* return { data: { id, ...previousData, ...data } }
updateResult(params) ==
    Ret(Obj(<<Entry(K_data,
        Obj(Spread(Spread(<<Entry(K_id, params.id)>>, params.previousData), params.data)))>>))

\* mutant of idsResult: the ids returned last to first
idsResult_Reversed(params) ==
    Ret(Obj(<<Entry(K_data,
        Arr([j \in 1..Len(params.ids.a) |-> params.ids.a[Len(params.ids.a) + 1 - j]]))>>))

\* return { data: ids }
idsResult(params) == Ret(Obj(<<Entry(K_data, params.ids)>>))

\* mutant of createResult: the submitted data spread after the returned id
createResult_KeepsSubmittedId(params, json) ==
    Ret(Obj(<<Entry(K_data, Obj(Spread(<<Entry(K_id, json)>>, params.data)))>>))

\* return { data: { ...data, id: json } }
createResult(params, json) ==
    Ret(Obj(<<Entry(K_data, Obj(ObjSet(Spread(<< >>, params.data), K_id, json)))>>))

\* mutant of deleteResult: previousData returned as the record when given
deleteResult_PreviousDataOnly(params) ==
    Ret(Obj(<<Entry(K_data, IF params.previousData.t = "object" THEN params.previousData
                            ELSE Obj(<<Entry(K_id, params.id)>>))>>))

\* return { data: { id, ...previousData } }
deleteResult(params) ==
    Ret(Obj(<<Entry(K_data, Obj(Spread(<<Entry(K_id, params.id)>>, params.previousData)))>>))

Result(op, params, json) ==
    CASE op \in {"getList", "getManyReference"} -> getListResult(json)
      [] op = "getOne" -> getOneResult(json)
      [] op = "getMany" -> getManyResult(json)
      [] op = "update" -> updateResult(params)
      [] op \in {"updateMany", "deleteMany"} -> idsResult(params)
      [] op = "create" -> createResult(params, json)
      [] op = "delete" -> deleteResult(params)

(***************************************************************************)
(* Inputs.                                                                 *)
(***************************************************************************)
Repeat(c, n) == [j \in 1..n |-> c]

\* sequences over S of length at most n
RECURSIVE SeqsUpTo(_, _)
SeqsUpTo(S, n) ==
    IF n = 0 THEN { << >> }
    ELSE LET shorter == SeqsUpTo(S, n - 1)
         IN  shorter \cup { Append(q, x) : q \in shorter, x \in S }

Range(f) == { f[j] : j \in DOMAIN f }

\* filter keys: a field name, a separator and a suffix
Fields == { Repeat("c", n) : n \in 0..MaxFieldLen }
KeyMids == { << >>, <<"_">>, <<"_", "n">>, <<"n">>, <<"_", "_">> }
KeySuffixes == Range(filterOperators) \cup { <<"x", "y">>, <<"q">>, << >> }
Keys == { f \o m \o x : f \in Fields, m \in KeyMids, x \in KeySuffixes }

Nums == { Num(0), Num(MaxNum), Num(10 + MaxNum) }
Scalars == Nums \cup { Bool(TRUE), Bool(FALSE), Str(<< >>), Str(<<"a">>) }
ArrElements == { Num(0), Num(MaxNum), Str(<< >>) }
Arrays == { Arr(a) : a \in SeqsUpTo(ArrElements, MaxArrLen) }
Values == Scalars \cup Arrays \cup { Null, Undefined }

\* filters with one key, over all keys and values
SingleFilters == { <<Entry(k, v)>> : k \in Keys, v \in Values }

\* filters with several keys, over a few keys and values
MultiKeys == { <<"q">>, <<"c">>, <<"c", "_", "b", "t">>, <<"d", "_", "n", "i", "n">> }
MultiValues == { Num(1), Str(<<"a">>), Arr(<<Num(0), Num(1)>>) }
MultiEntries == { Entry(k, v) : k \in MultiKeys, v \in MultiValues }
DistinctKeys(f) == \A j, k \in 1..Len(f) : j # k => f[j].key # f[k].key
MultiFilters == { f \in SeqsUpTo(MultiEntries, MaxFilterLen) : DistinctKeys(f) }

Filters == SingleFilters \cup MultiFilters

Metas ==
    { Undefined, Obj(<< >>), Obj(<<Entry(<<"j">>, Str(<<"a">>))>>),
      Obj(<<Entry(K_order, Str(<<"x">>)), Entry(<<"j">>, Num(1))>>),
      Obj(<<Entry(K_page, Str(<<"2">>)), Entry(APIFilterParam, Str(<<"x">>))>>),
      Obj(<<Entry(<<"j">>, Str(<<"&", "p", "a", "g", "e", "=", "9">>))>>) }

\* arguments of a direct call of the exported formatParams
FormatParamsInputs ==
    { [rest |-> << >>, filter |-> Obj(f), meta |-> Undefined] : f \in Filters }
    \cup { [rest |-> r, filter |-> f, meta |-> m] :
             r \in { << >>, <<Entry(K_order, Str(<<"x">>)), Entry(K_page, Str(<<"1">>))>> },
             f \in { Undefined, Obj(<< >>) }, m \in Metas }

\* arguments of the provider's operations
ApiUrls == { << >> } \cup { <<"a">> \o Repeat("/", n) : n \in 0..MaxSlashes }
Resources == { <<"p">> }
Sorts == { [field |-> Str(<<"t">>), order |-> Str(<<"A", "S", "C">>)] }
Paginations == { [page |-> Num(1), perPage |-> Num(25)] }
ProviderFilters == { Undefined } \cup { Obj(f) : f \in MultiFilters }
Targets == { <<"c">>, <<"c", "_", "b", "t">>, <<"u">> }
Ids == { Num(0), Num(1), Str(<<"a">>) }
IdLists == { Arr(a) : a \in SeqsUpTo({ Num(1), Num(2) }, 2) }
Record1 == Obj(<<Entry(K_id, Num(1)), Entry(<<"t">>, Str(<<"a">>))>>)
Datas == { Obj(<< >>), Obj(<<Entry(<<"t">>, Str(<<"b">>))>>),
           Obj(<<Entry(<<"t">>, Str(<<"b">>)), Entry(K_id, Num(2))>>) }
PreviousDatas == { Undefined, Obj(<< >>), Record1 }
\* updateMany: the changes of each record, as a list
ChangeLists ==
    { Arr(<<Obj(<<Entry(K_id, Num(1)), Entry(<<"t">>, Str(<<"b">>))>>),
            Obj(<<Entry(K_id, Num(2)), Entry(<<"t">>, Str(<<"c">>))>>)>>) }

GetListParams ==
    { [sort |-> s, pagination |-> p, filter |-> f, meta |-> m] :
        s \in Sorts, p \in Paginations, f \in ProviderFilters, m \in Metas }
GetOneParams == { [id |-> id, meta |-> m] : id \in Ids, m \in Metas }
GetManyParams == { [ids |-> ids, meta |-> m] : ids \in IdLists, m \in Metas }
GetManyReferenceParams ==
    { [id |-> id, target |-> t, sort |-> s, pagination |-> p, filter |-> f, meta |-> m] :
        id \in Ids, t \in Targets, s \in Sorts, p \in Paginations,
        f \in ProviderFilters, m \in { Undefined } }
UpdateParams ==
    { [id |-> id, data |-> d, previousData |-> pd, meta |-> m] :
        id \in Ids, d \in Datas, pd \in PreviousDatas, m \in { Undefined } }
UpdateManyParams ==
    { [ids |-> ids, data |-> d, meta |-> m] :
        ids \in IdLists, d \in Datas \cup ChangeLists, m \in { Undefined } }
CreateParams == { [data |-> d, meta |-> m] : d \in Datas, m \in Metas }
DeleteParams ==
    { [id |-> id, previousData |-> pd, meta |-> m] :
        id \in Ids, pd \in PreviousDatas, m \in { Undefined } }
DeleteManyParams == { [ids |-> ids, meta |-> m] : ids \in IdLists, m \in { Undefined } }

\* bodies the HTTP client resolves with, and errors it rejects with
Responses ==
    { Null, Num(7), Record1, Arr(<<Record1>>),
      Obj(<<Entry(K_records, Arr(<<Record1>>)), Entry(K_results, Num(1))>>),
      Obj(<<Entry(K_records, Arr(<< >>))>>) }
TransportErrors ==
    { [name |-> "HttpError", message |-> "Not Found"],
      [name |-> "TypeError", message |-> "Failed to fetch"] }

(***************************************************************************)
(* State.                                                                  *)
(***************************************************************************)
VARIABLES
    ctorArg,   \* the argument _apiUrl the provider was constructed with
    apiUrl,    \* this.apiUrl
    inv        \* the invocations: one record per slot

vars == <<ctorArg, apiUrl, inv>>

Invs == 1..NumInv

Idle == [pc |-> "idle"]
NoResponse == [t |-> "none"]
NoOutcome == [ok |-> TRUE, pending |-> TRUE]
NoFailure == [name |-> "none"]

\* mutant of ParamsAfter: getManyReference writes the reference into the
\* caller's filter
ParamsAfter_TargetWritten(op, params) ==
    IF op = "getManyReference" /\ params.filter.t = "object"
    THEN [params EXCEPT !.filter = Obj(ObjSet(params.filter.e, params.target, params.id))]
    ELSE params

\* the caller's parameter objects after the synchronous part of an
\* operation: the code destructures them, spreads them into new objects,
\* joins and serializes them, and assigns to none of their properties
ParamsAfter(op, params) == params

Init ==
    /\ ctorArg \in ApiUrls
    /\ apiUrl = Constructor(ctorArg)
    /\ inv = [i \in Invs |-> Idle]

\* the promise an operation returns at its await: rejected when building the
\* URL threw, otherwise pending on the one request handed to the HTTP client.
\* query and compiled record the argument of formatParams and the value of
\* its call of formatFilter.
Await(op, resource, params, query, url) ==
    [pc |-> IF url.ok THEN "pending" ELSE "rejected", op |-> op, resource |-> resource,
     params |-> params, query |-> query, compiled |-> CompiledFilter(query),
     requests |-> IF url.ok THEN <<[url |-> url.val, options |-> Options(op, params)]>>
                  ELSE << >>,
     response |-> NoResponse, failure |-> NoFailure,
     outcome |-> IF url.ok THEN NoOutcome ELSE url, caller |-> ParamsAfter(op, params)]

\* this.getURL(resource, urlParams) evaluated on the provider's base URL
BuildURL(op, resource, params, urlParams) ==
    Await(op, resource, params, QueryParams(urlParams), getURL(apiUrl, resource, urlParams))

\* the synchronous part of an operation, up to its await
Start(op, resource, params) == BuildURL(op, resource, params, URLParams(op, params))

\* calls are issued one after another: a call starts when no other is in
\* flight
AllIdle == \A j \in Invs : inv[j].pc = "idle"

Invoke(i, op, P) ==
    /\ AllIdle
    /\ \E resource \in Resources, params \in P :
          inv' = [inv EXCEPT ![i] = Start(op, resource, params)]
    /\ UNCHANGED <<ctorArg, apiUrl>>

getList(i) == Invoke(i, "getList", GetListParams)
getOne(i) == Invoke(i, "getOne", GetOneParams)
getMany(i) == Invoke(i, "getMany", GetManyParams)
getManyReference(i) == Invoke(i, "getManyReference", GetManyReferenceParams)
update(i) == Invoke(i, "update", UpdateParams)
updateMany(i) == Invoke(i, "updateMany", UpdateManyParams)
create(i) == Invoke(i, "create", CreateParams)
delete(i) == Invoke(i, "delete", DeleteParams)
deleteMany(i) == Invoke(i, "deleteMany", DeleteManyParams)

\* mutant of HttpResolve: update fetches the record again before it returns
HttpResolve_UpdateRefetches(i) ==
    /\ inv[i].pc = "pending"
    /\ \E json \in Responses :
          LET r == Result(inv[i].op, inv[i].params, json)
          IN  inv' = [inv EXCEPT ![i] =
                        [@ EXCEPT !.pc = IF r.ok THEN "resolved" ELSE "rejected",
                                  !.response = json, !.outcome = r,
                                  !.requests = IF inv[i].op = "update"
                                               THEN @ \o <<[url |-> @[1].url, options |-> Undefined]>>
                                               ELSE @]]
    /\ UNCHANGED <<ctorArg, apiUrl>>

\* the HTTP client resolves with { json }: the operation resumes after its
\* await and settles with its result
HttpResolve(i) ==
    /\ inv[i].pc = "pending"
    /\ \E json \in Responses :
          LET r == Result(inv[i].op, inv[i].params, json)
          IN  inv' = [inv EXCEPT ![i] = [@ EXCEPT !.pc = IF r.ok THEN "resolved" ELSE "rejected",
                                                    !.response = json, !.outcome = r]]
    /\ UNCHANGED <<ctorArg, apiUrl>>

\* mutant of HttpReject: the error of the client wrapped in a new one
HttpReject_WrapsError(i) ==
    /\ inv[i].pc = "pending"
    /\ \E e \in TransportErrors :
          inv' = [inv EXCEPT ![i] =
                    [@ EXCEPT !.pc = "rejected", !.failure = e,
                              !.outcome = [ok |-> FALSE,
                                           err |-> [name |-> "Error", message |-> e.message]]]]
    /\ UNCHANGED <<ctorArg, apiUrl>>

\* the HTTP client fails with e: the await rethrows e
HttpReject(i) ==
    /\ inv[i].pc = "pending"
    /\ \E e \in TransportErrors :
          inv' = [inv EXCEPT ![i] = [@ EXCEPT !.pc = "rejected", !.failure = e,
                                              !.outcome = [ok |-> FALSE, err |-> e]]]
    /\ UNCHANGED <<ctorArg, apiUrl>>

\* a direct call of the exported function formatParams
FormatParamsCall(i) ==
    /\ AllIdle
    /\ \E params \in FormatParamsInputs :
          LET r == formatParams(params)
          IN  inv' = [inv EXCEPT ![i] =
                        [pc |-> IF r.ok THEN "returned" ELSE "threw", op |-> "formatParams",
                         resource |-> << >>, params |-> params, query |-> params,
                         compiled |-> CompiledFilter(params), requests |-> << >>,
                         response |-> NoResponse, failure |-> NoFailure, outcome |-> r,
                         caller |-> ParamsAfter("formatParams", params)]]
    /\ UNCHANGED <<ctorArg, apiUrl>>

\* the caller has consumed the outcome; the slot is free for the next call
Done(i) ==
    /\ inv[i].pc \in {"resolved", "rejected", "returned", "threw"}
    /\ inv' = [inv EXCEPT ![i] = Idle]
    /\ UNCHANGED <<ctorArg, apiUrl>>

Next ==
    \E i \in Invs :
        \/ getList(i)
        \/ getOne(i)
        \/ getMany(i)
        \/ getManyReference(i)
        \/ update(i)
        \/ updateMany(i)
        \/ create(i)
        \/ delete(i)
        \/ deleteMany(i)
        \/ HttpResolve(i)
        \/ HttpReject(i)
        \/ FormatParamsCall(i)
        \/ Done(i)

Spec == Init /\ [][Next]_vars

(***************************************************************************)
(* Concurrent callers of one provider: an operation may start while others *)
(* are waiting for the HTTP client, and the client settles the waiting     *)
(* requests in any order.                                                  *)
(***************************************************************************)
Tasks == 1..MaxConcurrent

ConcurrentCalls ==
    { [op |-> "getList",
       params |-> [sort |-> s, pagination |-> p,
                   filter |-> Obj(<<Entry(<<"c">>, Num(1))>>), meta |-> Undefined]] :
        s \in Sorts, p \in Paginations }
    \cup { [op |-> "getManyReference",
            params |-> [id |-> Num(1), target |-> <<"u">>, sort |-> s, pagination |-> p,
                        filter |-> Obj(<<Entry(<<"c", "_", "b", "t">>, Num(1))>>),
                        meta |-> Undefined]] :
             s \in Sorts, p \in Paginations }
    \cup { [op |-> "update",
            params |-> [id |-> Str(<<"a">>), data |-> Obj(<<Entry(<<"t">>, Str(<<"b">>))>>),
                        previousData |-> Record1, meta |-> Undefined]] }

InitConcurrent ==
    /\ ctorArg \in ApiUrls
    /\ apiUrl = Constructor(ctorArg)
    /\ inv = [i \in Tasks |-> Idle]

\* mutant of Begin: the URL of the last request kept as the base URL
Begin_KeepsLastUrl(i) ==
    /\ inv[i].pc = "idle"
    /\ \E resource \in Resources, c \in ConcurrentCalls :
          /\ inv' = [inv EXCEPT ![i] = Start(c.op, resource, c.params)]
          /\ apiUrl' = apiUrl \o <<"/", "r", "e", "c", "o", "r", "d", "s", "/">> \o resource
    /\ UNCHANGED ctorArg

\* a caller starts an operation, whatever the other callers are doing
Begin(i) ==
    /\ inv[i].pc = "idle"
    /\ \E resource \in Resources, c \in ConcurrentCalls :
          inv' = [inv EXCEPT ![i] = Start(c.op, resource, c.params)]
    /\ UNCHANGED <<ctorArg, apiUrl>>

NextConcurrent ==
    \E i \in Tasks :
        \/ Begin(i)
        \/ HttpResolve(i)
        \/ HttpReject(i)
        \/ Done(i)

SpecConcurrent == InitConcurrent /\ [][NextConcurrent]_vars

(***************************************************************************)
(* Vocabulary of the properties.  These definitions restate what the       *)
(* specification says about keys and clauses; they do not use the          *)
(* compiler's own definitions.                                             *)
(***************************************************************************)
SimpleOps ==
    { <<"c", "s">>, <<"s", "w">>, <<"e", "w">>, <<"e", "q">>,
      <<"l", "t">>, <<"l", "e">>, <<"g", "e">>, <<"g", "t">> }
AllOps == SimpleOps \cup { <<"b", "t">>, <<"i", "n">>, <<"i", "s">> }
FilterName == <<"f", "i", "l", "t", "e", "r">>
SearchName == <<"s", "e", "a", "r", "c", "h">>
Comma == <<",">>

\* key ends in suf
EndsIn(key, suf) ==
    Len(key) >= Len(suf) /\ SubSeq(key, Len(key) - Len(suf) + 1, Len(key)) = suf

\* key with its last n characters removed
Without(key, n) == SubSeq(key, 1, Len(key) - n)

\* invocation i has called the filter compiler
Compiled(i) == inv[i].pc # "idle" /\ inv[i].compiled # NotCalled
\* the entries of the filter it compiled, and what the compiler returned
Input(i) == inv[i].query.filter.e
Emitted(i) == inv[i].compiled

\* the compiler emitted one pair per key, and for key j the filter clause text
EmitsClause(i, j, text) ==
    /\ Len(Input(i)) = 1 => Emitted(i).ok
    /\ Emitted(i).ok =>
          /\ Len(Emitted(i).val) = Len(Input(i))
          /\ Emitted(i).val[j] = <<FilterName, Str(text)>>

(***************************************************************************)
(* C1.  For every filter key <field>_<op> with op one of cs, sw, ew, eq,   *)
(* lt, le, ge, gt and every scalar value, the compiler emits the pair      *)
(* (filter, "<field>,<op>,<value in string form>"), <field> being the key  *)
(* without its last three characters.  Stated here for its plainest cases  *)
(* only: a non-empty field name and a number or boolean value.             *)
(***************************************************************************)
C1_ScalarValueIsEmitted ==
    \A i \in Invs : Compiled(i) =>
        \A j \in 1..Len(Input(i)) : \A op \in SimpleOps :
            LET key == Input(i)[j].key
                value == Input(i)[j].value
            IN  (EndsIn(key, <<"_">> \o op) /\ Len(key) > 3
                 /\ value.t \in {"number", "boolean"})
                => EmitsClause(i, j, Without(key, 3) \o Comma \o op \o Comma \o ToStr(value))

(***************************************************************************)
(* C2.  For every filter key <field>_n<op> with op in the vocabulary of    *)
(* eleven operators, the compiler emits the clause it emits for            *)
(* <field>_<op> and the same value, with n put in front of the operator    *)
(* code, <field> being the key without its last four characters; where     *)
(* <field>_<op> makes the compiler fail, <field>_n<op> fails alike.        *)
(***************************************************************************)
\* n is p with "n" put in front of the operator code op that follows the
\* field name
NegationOf(p, n, field, op) ==
    \E k \in (IF field = << >> THEN {0, 1} ELSE {Len(field) + 1}) :
        /\ k + 2 <= Len(p)
        /\ SubSeq(p, k + 1, k + 2) = op
        /\ k > 0 => SubSeq(p, 1, k) = field \o Comma
        /\ n = SubSeq(p, 1, k) \o <<"n">> \o SubSeq(p, k + 1, Len(p))

C2_NegatedLikePlain ==
    \A i \in Invs : Compiled(i) =>
        \A j \in 1..Len(Input(i)) : \A op \in AllOps :
            LET key == Input(i)[j].key
                value == Input(i)[j].value
                field == Without(key, 4)
                plain == formatFilterEntry(field \o <<"_">> \o op, value)
            IN  EndsIn(key, <<"_", "n">> \o op) =>
                    IF ~plain.ok
                    THEN ~Emitted(i).ok /\ (Len(Input(i)) = 1 => Emitted(i) = plain)
                    ELSE /\ Len(Input(i)) = 1 => Emitted(i).ok
                         /\ Emitted(i).ok =>
                               /\ Len(Emitted(i).val) = Len(Input(i))
                               /\ Emitted(i).val[j][1] = FilterName
                               /\ plain.val[1] = FilterName
                               /\ NegationOf(plain.val[2].s, Emitted(i).val[j][2].s, field, op)

\* c_new: 11 has been compiled to c,new,11
C2_Witness ==
    \E i \in Invs :
        /\ Compiled(i)
        /\ Input(i) = <<Entry(<<"c", "_", "n", "e", "w">>, Num(10 + MaxNum))>>
        /\ Emitted(i).ok
        /\ Emitted(i).val[1][2].s = <<"c", ",", "n", "e", "w", ",">> \o NumStr(10 + MaxNum)

(***************************************************************************)
(* C3.  For every filter key other than q that does not end in _<op> or    *)
(* _n<op> with op in the vocabulary, the compiler emits the pair           *)
(* (filter, "<key>,eq,<value>") with the whole key as the field name.      *)
(***************************************************************************)
Unrecognized(key) ==
    /\ key # <<"q">>
    /\ \A op \in AllOps : ~EndsIn(key, <<"_">> \o op) /\ ~EndsIn(key, <<"_", "n">> \o op)

C3_UnrecognizedKeyIsImplicitEquals ==
    \A i \in Invs : Compiled(i) =>
        \A j \in 1..Len(Input(i)) :
            LET key == Input(i)[j].key
                value == Input(i)[j].value
            IN  Unrecognized(key)
                => EmitsClause(i, j, key \o <<",", "e", "q", ",">> \o ToStr(value))

\* the key eq, shorter than a suffix, has been compiled with the value 0
C3_Witness ==
    \E i \in Invs :
        /\ Compiled(i)
        /\ Input(i) = <<Entry(<<"e", "q">>, Num(0))>>
        /\ Emitted(i) = Ret(<< <<FilterName, Str(<<"e", "q", ",", "e", "q", ",", "0">>)>> >>)

(***************************************************************************)
(* C4.  A filter key equal to q is emitted as the pair (search, value),    *)
(* never as a filter parameter; every other key of the same filter is      *)
(* emitted as a filter parameter, so that { q: v, c: w } yields            *)
(* ?search=v&filter=c,eq,w.                                                *)
(***************************************************************************)
C4_SearchKeyIsSearchParam ==
    \A i \in Invs : (Compiled(i) /\ Emitted(i).ok) =>
        /\ Len(Emitted(i).val) = Len(Input(i))
        /\ \A j \in 1..Len(Input(i)) :
              IF Input(i)[j].key = <<"q">>
              THEN Emitted(i).val[j] = <<SearchName, Input(i)[j].value>>
              ELSE Emitted(i).val[j][1] = FilterName
        /\ (/\ inv[i].op = "formatParams"
            /\ inv[i].query.rest = << >>
            /\ inv[i].query.meta = Undefined
            /\ Len(Input(i)) = 2
            /\ Input(i)[1].key = <<"q">>
            /\ Input(i)[2].key = <<"c">>)
           => inv[i].outcome =
                 Ret(<<"?">> \o SearchName \o <<"=">> \o ToStr(Input(i)[1].value) \o <<"&">>
                     \o FilterName \o <<"=", "c", ",", "e", "q", ",">>
                     \o ToStr(Input(i)[2].value))

\* formatParams({ filter: { q: "a", c: 1 } }) has returned
C4_Witness ==
    \E i \in Invs :
        /\ Compiled(i)
        /\ inv[i].op = "formatParams"
        /\ Input(i) = <<Entry(<<"q">>, Str(<<"a">>)), Entry(<<"c">>, Num(1))>>
        /\ inv[i].pc = "returned"
        /\ Emitted(i).val[1] = <<SearchName, Str(<<"a">>)>>

(***************************************************************************)
(* C5.  Compiling a filter whose key ends in _bt or _nbt with a value that *)
(* is not an array fails with the TypeError "Array expected as filter      *)
(* value for filter type "between" (bt)", a key ending in _in or _nin with *)
(* such a value fails with the TypeError "Array expected as filter value   *)
(* for filter type "in"", and no query string is produced.  With several   *)
(* such keys the error is that of the first one.                           *)
(***************************************************************************)
ArrayExpected(e) ==
    IF e.value.t = "array" THEN "none"
    ELSE IF EndsIn(e.key, <<"_", "b", "t">>) \/ EndsIn(e.key, <<"_", "n", "b", "t">>)
    THEN "Array expected as filter value for filter type \"between\" (bt)"
    ELSE IF EndsIn(e.key, <<"_", "i", "n">>) \/ EndsIn(e.key, <<"_", "n", "i", "n">>)
    THEN "Array expected as filter value for filter type \"in\""
    ELSE "none"

C5_NonArrayIsTypeError ==
    \A i \in Invs : Compiled(i) =>
        \A j \in 1..Len(Input(i)) :
            (/\ ArrayExpected(Input(i)[j]) # "none"
             /\ \A k \in 1..(j - 1) : ArrayExpected(Input(i)[k]) = "none")
            => /\ Emitted(i) = [ok |-> FALSE,
                                err |-> [name |-> "TypeError",
                                         message |-> ArrayExpected(Input(i)[j])]]
               /\ inv[i].outcome = Emitted(i)
               /\ inv[i].pc \in {"threw", "rejected"}

\* formatParams({ filter: { c_nin: 1 } }) has thrown
C5_Witness ==
    \E i \in Invs :
        /\ Compiled(i)
        /\ Input(i) = <<Entry(<<"c", "_", "n", "i", "n">>, Num(1))>>
        /\ inv[i].pc = "threw"
        /\ inv[i].outcome.err.name = "TypeError"

(***************************************************************************)
(* C6.  When getList or getManyReference is called with a filter that      *)
(* makes the compiler fail (a value that is not an array for bt or in),    *)
(* the operation fails with the TypeError the compiler raised and the HTTP *)
(* client is not called for that invocation.  In getList the error is that *)
(* of the first such key of the filter; in getManyReference the compiler   *)
(* runs on the filter merged with { [target]: id }, whose first such key   *)
(* may be the target.                                                      *)
(***************************************************************************)
FailsCompiler(filter) == \E j \in 1..Len(filter) : ArrayExpected(filter[j]) # "none"

FirstArrayExpected(filter) ==
    ArrayExpected(filter[CHOOSE j \in 1..Len(filter) :
                            /\ ArrayExpected(filter[j]) # "none"
                            /\ \A k \in 1..(j - 1) : ArrayExpected(filter[k]) = "none"])

C6_CompilerFailureBeforeRequest ==
    \A i \in Invs :
        (/\ inv[i].pc # "idle"
         /\ inv[i].op \in {"getList", "getManyReference"}
         /\ inv[i].params.filter.t = "object"
         /\ FailsCompiler(inv[i].params.filter.e))
        => /\ inv[i].pc = "rejected"
           /\ inv[i].requests = << >>
           /\ ~inv[i].outcome.ok
           /\ inv[i].outcome.err.name = "TypeError"
           /\ inv[i].outcome = inv[i].compiled
           /\ inv[i].outcome.err.message =
                 FirstArrayExpected(IF inv[i].op = "getList" THEN inv[i].params.filter.e
                                    ELSE inv[i].query.filter.e)

\* getManyReference with the filter { c_bt: 1 } has been rejected
C6_Witness ==
    \E i \in Invs :
        /\ inv[i].pc = "rejected"
        /\ inv[i].op = "getManyReference"
        /\ inv[i].params.filter = Obj(<<Entry(<<"c", "_", "b", "t">>, Num(1))>>)
        /\ inv[i].outcome.err.name = "TypeError"
        /\ inv[i].requests = << >>

(***************************************************************************)
(* C7.  For a key <field>_bt with an array value, the emitted clause is    *)
(* "<field>,bt,<value[0]>,<value[1]>": the first two elements only are     *)
(* used, every element at index 2 or beyond is ignored.  <field> is a      *)
(* non-empty field name; an element the array does not have reads as       *)
(* undefined.                                                              *)
(***************************************************************************)
ElementText(a, k) ==
    IF k <= Len(a) THEN ToStr(a[k]) ELSE <<"u", "n", "d", "e", "f", "i", "n", "e", "d">>

C7_BetweenUsesFirstTwo ==
    \A i \in Invs : Compiled(i) =>
        \A j \in 1..Len(Input(i)) :
            LET key == Input(i)[j].key
                value == Input(i)[j].value
            IN  (EndsIn(key, <<"_", "b", "t">>) /\ Len(key) > 3 /\ value.t = "array")
                => EmitsClause(i, j, Without(key, 3) \o <<",", "b", "t", ",">>
                                     \o ElementText(value.a, 1) \o Comma
                                     \o ElementText(value.a, 2))

\* c_bt with an array of three elements has been compiled to c,bt,0,0
C7_Witness ==
    \E i \in Invs :
        /\ Compiled(i)
        /\ Input(i) = <<Entry(<<"c", "_", "b", "t">>, Arr(<<Num(0), Num(0), Num(MaxNum)>>))>>
        /\ Emitted(i) =
              Ret(<< <<FilterName, Str(<<"c", ",", "b", "t", ",", "0", ",", "0">>)>> >>)

(***************************************************************************)
(* C8.  For a key <field>_in with an array value, the emitted clause is    *)
(* "<field>,in," followed by all elements of the array joined by commas,   *)
(* in array order, no element dropped or deduplicated.  <field> is a       *)
(* non-empty field name.                                                   *)
(***************************************************************************)
\* the string forms of the elements of a, in order, separated by commas
RECURSIVE CommaList(_)
CommaList(a) ==
    IF a = << >> THEN << >>
    ELSE IF Len(a) = 1 THEN ToStr(a[1])
    ELSE ToStr(a[1]) \o Comma \o CommaList(Tail(a))

IsInEntry(e) == EndsIn(e.key, <<"_", "i", "n">>) /\ Len(e.key) > 3 /\ e.value.t = "array"

\* the claim as it stands
C8_InJoinsAllElements ==
    \A i \in Invs : Compiled(i) =>
        \A j \in 1..Len(Input(i)) :
            IsInEntry(Input(i)[j])
            => EmitsClause(i, j, Without(Input(i)[j].key, 3) \o <<",", "i", "n", ",">>
                                 \o CommaList(Input(i)[j].value.a))

\* C8 as amended: the clause is "<field>,in," followed by the joined
\* elements when the joined text is not empty, and "<field>,in" with no
\* trailing comma when it is empty
C8_InJoinsAllElementsUnlessEmpty ==
    \A i \in Invs : Compiled(i) =>
        \A j \in 1..Len(Input(i)) :
            LET list == CommaList(Input(i)[j].value.a)
            IN  IsInEntry(Input(i)[j])
                => EmitsClause(i, j, Without(Input(i)[j].key, 3) \o <<",", "i", "n">>
                                     \o (IF list = << >> THEN << >> ELSE Comma \o list))

\* c_in with a repeated element has been compiled to c,in,0,0,1
C8_Witness ==
    \E i \in Invs :
        /\ Compiled(i)
        /\ Input(i) = <<Entry(<<"c", "_", "i", "n">>, Arr(<<Num(0), Num(0), Num(MaxNum)>>))>>
        /\ Emitted(i).ok
        /\ Emitted(i).val[1][2].s = <<"c", ",", "i", "n", ",", "0", ",", "0", ",">> \o NumStr(MaxNum)

(***************************************************************************)
(* C9.  For a key <field>_is or <field>_nis the emitted clause is exactly  *)
(* "<field>,is" or "<field>,nis", with no trailing comma and no value,     *)
(* whatever value was supplied.  <field> is a non-empty field name.        *)
(***************************************************************************)
C9_NullTestHasNoValue ==
    \A i \in Invs : Compiled(i) =>
        \A j \in 1..Len(Input(i)) :
            LET key == Input(i)[j].key
            IN  /\ (EndsIn(key, <<"_", "i", "s">>) /\ Len(key) > 3)
                   => EmitsClause(i, j, Without(key, 3) \o <<",", "i", "s">>)
                /\ (EndsIn(key, <<"_", "n", "i", "s">>) /\ Len(key) > 4)
                   => EmitsClause(i, j, Without(key, 4) \o <<",", "n", "i", "s">>)

\* c_nis with a two-digit number as value has been compiled to c,nis
C9_Witness ==
    \E i \in Invs :
        /\ Compiled(i)
        /\ Input(i) = <<Entry(<<"c", "_", "n", "i", "s">>, Num(10 + MaxNum))>>
        /\ Emitted(i) = Ret(<< <<FilterName, Str(<<"c", ",", "n", "i", "s">>)>> >>)

(***************************************************************************)
(* C10.  Every request URL starts with <apiUrl>/records/<resource>, where  *)
(* <apiUrl> is the constructor argument with exactly one trailing slash    *)
(* removed when it ends in a slash, and the argument itself otherwise.     *)
(***************************************************************************)
OneSlashRemoved(s) == IF s # << >> /\ s[Len(s)] = "/" THEN SubSeq(s, 1, Len(s) - 1) ELSE s

StartsWith(s, prefix) == Len(s) >= Len(prefix) /\ SubSeq(s, 1, Len(prefix)) = prefix

C10_RequestUrlBase ==
    \A i \in Invs : inv[i].pc # "idle" =>
        \A k \in 1..Len(inv[i].requests) :
            StartsWith(inv[i].requests[k].url,
                       OneSlashRemoved(ctorArg) \o <<"/", "r", "e", "c", "o", "r", "d", "s", "/">>
                       \o inv[i].resource)

\* a provider constructed with a// has sent a request to a//records/p...
C10_Witness ==
    \E i \in Invs :
        /\ ctorArg = <<"a", "/", "/">>
        /\ inv[i].pc = "pending"
        /\ Len(inv[i].requests) = 1
        /\ StartsWith(inv[i].requests[1].url,
                      <<"a", "/", "/", "r", "e", "c", "o", "r", "d", "s", "/", "p">>)

(***************************************************************************)
(* Vocabulary of the request properties.                                   *)
(***************************************************************************)
\* invocation i of one of the operations ops has handed its request to the
\* HTTP client
Requested(i, ops) ==
    inv[i].pc # "idle" /\ inv[i].op \in ops /\ Len(inv[i].requests) = 1

Url(i) == inv[i].requests[1].url

\* <base>/records/<resource>
RecordsPath(i) ==
    OneSlashRemoved(ctorArg) \o <<"/", "r", "e", "c", "o", "r", "d", "s", "/">> \o inv[i].resource

HasMark(s) == \E j \in 1..Len(s) : s[j] = "?"

\* the URL up to its query string, and the query string after the "?"
PathOf(s) ==
    IF HasMark(s)
    THEN SubSeq(s, 1, (CHOOSE j \in 1..Len(s) : s[j] = "?" /\ \A k \in 1..(j - 1) : s[k] # "?") - 1)
    ELSE s

QueryOf(s) == SubSeq(s, Len(PathOf(s)) + 2, Len(s))

\* an identifier written out: the decimal digits of a number, the
\* characters of a string
IdText(id) == IF id.t = "number" THEN NumStr(id.n) ELSE id.s

(***************************************************************************)
(* C11.  For every identifier given to getOne, update or delete, a number  *)
(* or a string, the request goes to <base>/records/<resource>/<id>: the    *)
(* segment /<id> is present whenever a single identifier is given.         *)
(***************************************************************************)
C11_IdSegmentPresent ==
    \A i \in Invs : Requested(i, {"getOne", "update", "delete"}) =>
        PathOf(Url(i)) = RecordsPath(i) \o <<"/">> \o IdText(inv[i].params.id)

ReservedNames == { <<"o", "r", "d", "e", "r">>, <<"p", "a", "g", "e">>, FilterName }

\* the query parameters of invocation i after id and ids are removed
Query(i) == inv[i].query

\* the text of the pairs name=value, each with a "&" in front
RECURSIVE PairsText(_)
PairsText(pairs) ==
    IF pairs = << >> THEN << >>
    ELSE <<"&">> \o pairs[1][1] \o <<"=">> \o ToStr(pairs[1][2]) \o PairsText(Tail(pairs))

\* the metadata pairs that are passed on, in the order of the bag
RECURSIVE PassedOn(_)
PassedOn(entries) ==
    IF entries = << >> THEN << >>
    ELSE (IF entries[1].key \in ReservedNames THEN << >>
          ELSE << <<entries[1].key, entries[1].value>> >>)
         \o PassedOn(Tail(entries))

MetaPairs(meta) == IF meta.t = "object" THEN PassedOn(meta.e) ELSE << >>

\* nothing is left to send: no order, no page, no filter key, no metadata
\* pair other than the reserved ones
NothingRemains(q) ==
    /\ q.rest = << >>
    /\ q.filter.t = "object" => q.filter.e = << >>
    /\ MetaPairs(q.meta) = << >>

(***************************************************************************)
(* C13.  When no order, page, filter clause or non-reserved metadata pair  *)
(* remains after id and ids are removed (metadata absent, empty or holding *)
(* only the keys order, page, filter), the URL holds no "?" and nothing    *)
(* after the path, and formatParams returns the empty string.              *)
(***************************************************************************)
C13_NoParametersNoMark ==
    \A i \in Invs : (inv[i].pc # "idle" /\ NothingRemains(Query(i))) =>
        /\ inv[i].op = "formatParams" => inv[i].outcome = Ret(<< >>)
        /\ inv[i].op # "formatParams" =>
              /\ Len(inv[i].requests) = 1
              /\ ~HasMark(Url(i))
              /\ StartsWith(Url(i), RecordsPath(i))
              /\ \A j \in (Len(RecordsPath(i)) + 1)..Len(Url(i)) : Url(i)[j] \notin {"&", "="}

\* create with metadata that holds only the keys page and filter has sent
\* its request to a/records/p
C13_Witness ==
    \E i \in Invs :
        /\ Requested(i, {"create"})
        /\ ctorArg = <<"a">>
        /\ inv[i].params.meta.t = "object"
        /\ Len(inv[i].params.meta.e) = 2
        /\ Url(i) = <<"a", "/", "r", "e", "c", "o", "r", "d", "s", "/", "p">>

(***************************************************************************)
(* C14.  getList hands the HTTP client no options (a GET) and the URL      *)
(* <base>/records/<resource>?order=<field>,<order>&page=<page>,<perPage>   *)
(* followed by one &filter=... parameter per filter key (&search=... for   *)
(* the key q) in the filter's enumeration order and then by the metadata   *)
(* pairs; the commas are literal, not percent-encoded.                     *)
(***************************************************************************)
ListQuery(params) ==
    <<"?", "o", "r", "d", "e", "r", "=">> \o ToStr(params.sort.field) \o Comma
        \o ToStr(params.sort.order)
    \o <<"&", "p", "a", "g", "e", "=">> \o ToStr(params.pagination.page) \o Comma
        \o ToStr(params.pagination.perPage)

\* the pairs the compiler emitted for the filter of invocation i
ClausePairs(i) == IF Compiled(i) THEN Emitted(i).val ELSE << >>

C14_GetListRequest ==
    \A i \in Invs : Requested(i, {"getList"}) =>
        /\ inv[i].requests[1].options = Undefined
        /\ Url(i) = RecordsPath(i) \o ListQuery(inv[i].params) \o PairsText(ClausePairs(i))
                       \o PairsText(MetaPairs(inv[i].params.meta))
        /\ Compiled(i) =>
              /\ Len(ClausePairs(i)) = Len(Input(i))
              /\ \A j \in 1..Len(Input(i)) :
                    ClausePairs(i)[j][1] = IF Input(i)[j].key = <<"q">> THEN SearchName
                                           ELSE FilterName

\* getList with the filter { c_bt: [0, 1], q: "a" } and no metadata has sent
\* a/records/p?order=t,ASC&page=1,25&filter=c,bt,0,1&search=a
C14_Witness ==
    \E i \in Invs :
        /\ Requested(i, {"getList"})
        /\ ctorArg = <<"a">>
        /\ inv[i].params.meta = Undefined
        /\ Url(i) = <<"a", "/", "r", "e", "c", "o", "r", "d", "s", "/", "p", "?",
                      "o", "r", "d", "e", "r", "=", "t", ",", "A", "S", "C", "&",
                      "p", "a", "g", "e", "=", "1", ",", "2", "5", "&",
                      "f", "i", "l", "t", "e", "r", "=", "c", ",", "b", "t", ",", "0", ",", "1", "&",
                      "s", "e", "a", "r", "c", "h", "=", "a">>

(***************************************************************************)
(* C15.  The metadata pairs are appended verbatim after the order, page    *)
(* and filter parameters, the keys order, page and filter left out; hence  *)
(* the query string holds no order, page or filter parameter other than    *)
(* those of the request itself: metadata never adds one.                   *)
(***************************************************************************)
\* invocation i has produced a query string
HasQueryText(i) ==
    /\ inv[i].pc # "idle"
    /\ IF inv[i].op = "formatParams" THEN inv[i].outcome.ok ELSE Len(inv[i].requests) = 1

\* the query string without its "?"
QueryText(i) ==
    IF inv[i].op = "formatParams"
    THEN (IF inv[i].outcome.val = << >> THEN << >> ELSE Tail(inv[i].outcome.val))
    ELSE QueryOf(Url(i))

RestPairs(i) == [j \in 1..Len(Query(i).rest) |-> <<Query(i).rest[j].key, Query(i).rest[j].value>>]

\* the parameters of a query string start at its first character and after
\* every "&"; the name of a parameter ends before its "=" or at its end
ParamStarts(q) == IF q = << >> THEN { } ELSE { 1 } \cup { j + 1 : j \in { k \in 1..Len(q) : q[k] = "&" } }

NameAt(q, j) ==
    LET ends == { k \in j..Len(q) : q[k] \in {"=", "&"} }
        stop == IF ends = { } THEN Len(q) + 1 ELSE CHOOSE k \in ends : \A m \in ends : k <= m
    IN  SubSeq(q, j, stop - 1)

CountNamed(q, name) == Cardinality({ j \in ParamStarts(q) : NameAt(q, j) = name })

CountPairs(pairs, name) == Cardinality({ j \in 1..Len(pairs) : pairs[j][1] = name })

C15_MetaNeverAddsReserved ==
    \A i \in Invs : HasQueryText(i) =>
        LET own == RestPairs(i) \o ClausePairs(i)
            all == PairsText(own \o MetaPairs(Query(i).meta))
        IN  /\ QueryText(i) = IF all = << >> THEN << >> ELSE Tail(all)
            /\ \A name \in ReservedNames :
                  CountNamed(QueryText(i), name) = CountPairs(own, name)

(***************************************************************************)
(* Vocabulary of the results.                                              *)
(***************************************************************************)
\* invocation i of one of the operations ops has resolved
Resolved(i, ops) == inv[i].pc = "resolved" /\ inv[i].op \in ops

\* the value the operation resolved with, and its data
Returned(i) == inv[i].outcome.val
Data(i) == Get(Returned(i), K_data)

\* the body the HTTP client resolved with
ResponseBody(i) == inv[i].response

\* { data: d }
DataOnly(d) == Obj(<<Entry(K_data, d)>>)
\* { data: d, total: n }
DataTotal(d, n) == Obj(<<Entry(K_data, d), Entry(K_total, n)>>)

(***************************************************************************)
(* C16.  getList returns { data: <records of the response body>, total:    *)
(* <results of the response body> }, and total is 0 when the response body *)
(* carries no results count.  Stated for bodies that hold records.         *)
(***************************************************************************)
C16_GetListTotalDefaultsToZero ==
    \A i \in Invs :
        (/\ Resolved(i, {"getList"})
         /\ ResponseBody(i).t = "object"
         /\ HasKey(ResponseBody(i).e, K_records))
        => Returned(i) =
             DataTotal(Get(ResponseBody(i), K_records),
                       IF HasKey(ResponseBody(i).e, K_results) THEN Get(ResponseBody(i), K_results)
                       ELSE Num(0))

(***************************************************************************)
(* C17.  getMany always returns an array in data: the response body itself *)
(* when it is an array, and a one-element array holding the body when the  *)
(* server returned anything else, a single object in particular.           *)
(***************************************************************************)
C17_GetManyReturnsArray ==
    \A i \in Invs :
        (inv[i].pc # "idle" /\ inv[i].op = "getMany" /\ inv[i].response # NoResponse) =>
        /\ Resolved(i, {"getMany"})
        /\ Data(i).t = "array"
        /\ Returned(i) = DataOnly(IF ResponseBody(i).t = "array" THEN ResponseBody(i)
                                  ELSE Arr(<<ResponseBody(i)>>))

\* getMany of one id, answered with a single record, has returned that
\* record in a one-element array
C17_Witness ==
    \E i \in Invs :
        /\ Resolved(i, {"getMany"})
        /\ inv[i].params.ids = Arr(<<Num(1)>>)
        /\ ResponseBody(i) = Record1
        /\ Returned(i) = DataOnly(Arr(<<Record1>>))

(***************************************************************************)
(* C18.  For every target field name and reference id, getManyReference    *)
(* issues a GET whose query string holds order, page, one clause per       *)
(* caller-supplied filter key and the clause filter=<target>,eq,<id> of    *)
(* the reference, and it returns { data: records, total: results } of the  *)
(* response body.  Stated for caller filters that compile on their own.    *)
(***************************************************************************)
\* the parameter of a query string that starts at position j
ParamAt(q, j) ==
    LET ends == { k \in j..Len(q) : q[k] = "&" }
        stop == IF ends = { } THEN Len(q) + 1 ELSE CHOOSE k \in ends : \A m \in ends : k <= m
    IN  SubSeq(q, j, stop - 1)

ParamSet(q) == { ParamAt(q, j) : j \in ParamStarts(q) }

CallerKeys(params) ==
    IF params.filter.t = "object" THEN { params.filter.e[j].key : j \in 1..Len(params.filter.e) }
    ELSE { }

CallerFilterCompiles(params) == params.filter.t = "object" => ~FailsCompiler(params.filter.e)

ReferenceClause(params) ==
    FilterName \o <<"=">> \o params.target \o <<",", "e", "q", ",">> \o IdText(params.id)

C18_ReferenceClauseForEveryTarget ==
    \A i \in Invs :
        (/\ inv[i].pc # "idle"
         /\ inv[i].op = "getManyReference"
         /\ CallerFilterCompiles(inv[i].params))
        => /\ Len(inv[i].requests) = 1
           /\ inv[i].requests[1].options = Undefined
           /\ StartsWith(Url(i), RecordsPath(i) \o ListQuery(inv[i].params))
           /\ ReferenceClause(inv[i].params) \in ParamSet(QueryText(i))
           /\ Cardinality(ParamStarts(QueryText(i)))
                 = 2 + Cardinality(CallerKeys(inv[i].params) \cup { inv[i].params.target })
           /\ (inv[i].pc = "resolved" /\ ResponseBody(i).t = "object")
                 => Returned(i) = DataTotal(Get(ResponseBody(i), K_records),
                                            Get(ResponseBody(i), K_results))

(***************************************************************************)
(* Vocabulary of records and request bodies.                               *)
(***************************************************************************)
\* the field names of a record; none for an omitted record
FieldsOf(r) == IF r.t = "object" THEN { r.e[j].key : j \in 1..Len(r.e) } ELSE { }

\* the JSON text of a record whose fields hold numbers and strings
ScalarJson(v) == IF v.t = "number" THEN NumStr(v.n) ELSE <<"\"">> \o v.s \o <<"\"">>

RECURSIVE MembersJson(_)
MembersJson(e) ==
    IF e = << >> THEN << >>
    ELSE <<"\"">> \o e[1].key \o <<"\"", ":">> \o ScalarJson(e[1].value)
         \o (IF Len(e) = 1 THEN << >> ELSE Comma \o MembersJson(Tail(e)))

RecordJson(r) == <<"{">> \o MembersJson(r.e) \o <<"}">>

C20_UpdatePutsAndMerges ==
    \A i \in Invs : Requested(i, {"update"}) =>
        LET id == inv[i].params.id
            data == inv[i].params.data
            previousData == inv[i].params.previousData
        IN  /\ inv[i].requests[1].options = [method |-> "PUT", body |-> Str(RecordJson(data))]
            /\ (id # Num(0) /\ id # Str(<< >>))
                  => Url(i) = RecordsPath(i) \o <<"/">> \o IdText(id)
            /\ inv[i].response # NoResponse =>
                  /\ Resolved(i, {"update"})
                  /\ FieldsOf(Returned(i)) = { K_data }
                  /\ FieldsOf(Data(i)) = { K_id } \cup FieldsOf(previousData) \cup FieldsOf(data)
                  /\ \A k \in FieldsOf(data) : Get(Data(i), k) = Get(data, k)
                  /\ \A k \in FieldsOf(previousData) \ FieldsOf(data) :
                        Get(Data(i), k) = Get(previousData, k)
                  /\ K_id \notin (FieldsOf(previousData) \cup FieldsOf(data))
                        => Get(Data(i), K_id) = id
                  /\ FieldsOf(previousData) = { }
                        => Data(i) = Obj(<<Entry(K_id, IF K_id \in FieldsOf(data)
                                                      THEN Get(data, K_id) ELSE id)>>
                                         \o SelectSeq(data.e, LAMBDA e : e.key # K_id))

\* update of record a with { t: "b" } over the previous { id: 1, t: "a" },
\* answered with null, has put {"t":"b"} to a/records/p/a and returned
\* { id: 1, t: "b" }
C20_Witness ==
    \E i \in Invs :
        /\ Resolved(i, {"update"})
        /\ ctorArg = <<"a">>
        /\ Url(i) = <<"a", "/", "r", "e", "c", "o", "r", "d", "s", "/", "p", "/", "a">>
        /\ inv[i].requests[1].options.body = Str(<<"{", "\"", "t", "\"", ":", "\"", "b", "\"", "}">>)
        /\ inv[i].params.previousData = Record1
        /\ ResponseBody(i) = Null
        /\ Returned(i) = DataOnly(Obj(<<Entry(K_id, Num(1)), Entry(<<"t">>, Str(<<"b">>))>>))

(***************************************************************************)
(* C21.  delete issues a DELETE to /<id> and returns                       *)
(* { data: { id, ...previousData } } whatever the response body is; when   *)
(* the caller supplies no previousData the record is exactly { id }.  The  *)
(* path is stated for the identifiers whose segment getURL writes: not 0   *)
(* and not the empty string (C11).                                         *)
(***************************************************************************)
C21_DeleteReturnsPreviousRecord ==
    \A i \in Invs : Requested(i, {"delete"}) =>
        LET id == inv[i].params.id
            previousData == inv[i].params.previousData
        IN  /\ inv[i].requests[1].options.method = "DELETE"
            /\ inv[i].requests[1].options.body = Undefined
            /\ (id # Num(0) /\ id # Str(<< >>))
                  => Url(i) = RecordsPath(i) \o <<"/">> \o IdText(id)
            /\ inv[i].response # NoResponse =>
                  /\ Resolved(i, {"delete"})
                  /\ FieldsOf(Returned(i)) = { K_data }
                  /\ FieldsOf(Data(i)) = { K_id } \cup FieldsOf(previousData)
                  /\ \A k \in FieldsOf(previousData) : Get(Data(i), k) = Get(previousData, k)
                  /\ previousData = Undefined => Data(i) = Obj(<<Entry(K_id, id)>>)

\* delete of record 1 without previousData, answered with 7, has sent
\* DELETE a/records/p/1 and returned { id: 1 }
C21_Witness ==
    \E i \in Invs :
        /\ Resolved(i, {"delete"})
        /\ ctorArg = <<"a">>
        /\ Url(i) = <<"a", "/", "r", "e", "c", "o", "r", "d", "s", "/", "p", "/", "1">>
        /\ inv[i].params.previousData = Undefined
        /\ ResponseBody(i) = Num(7)
        /\ Returned(i) = DataOnly(Obj(<<Entry(K_id, Num(1))>>))

(***************************************************************************)
(* C22.  updateMany, a PUT whose body is the JSON of the submitted         *)
(* changes (a JSON array when the changes are given per record), and       *)
(* deleteMany, a DELETE, return { data: <the submitted id list> } in the   *)
(* submitted order, whatever the response body is.                         *)
(***************************************************************************)
RECURSIVE ElementsJson(_)
ElementsJson(a) ==
    IF a = << >> THEN << >>
    ELSE RecordJson(a[1]) \o (IF Len(a) = 1 THEN << >> ELSE Comma \o ElementsJson(Tail(a)))

ChangesJson(d) == IF d.t = "array" THEN <<"[">> \o ElementsJson(d.a) \o <<"]">> ELSE RecordJson(d)

C22_ManyReturnSubmittedIds ==
    \A i \in Invs : Requested(i, {"updateMany", "deleteMany"}) =>
        /\ inv[i].op = "updateMany" =>
              inv[i].requests[1].options =
                 [method |-> "PUT", body |-> Str(ChangesJson(inv[i].params.data))]
        /\ inv[i].op = "deleteMany" => inv[i].requests[1].options.method = "DELETE"
        /\ inv[i].response # NoResponse =>
              /\ Resolved(i, {"updateMany", "deleteMany"})
              /\ Returned(i) = DataOnly(inv[i].params.ids)

\* updateMany of the ids 2, 1 with a list of two changes, answered with a
\* single record, has put the JSON array and returned the ids 2, 1
C22_Witness ==
    \E i \in Invs :
        /\ Resolved(i, {"updateMany"})
        /\ inv[i].params.ids = Arr(<<Num(2), Num(1)>>)
        /\ inv[i].requests[1].options.body =
              Str(<<"[", "{", "\"", "i", "d", "\"", ":", "1", ",", "\"", "t", "\"", ":", "\"", "b", "\"", "}", ",",
                    "{", "\"", "i", "d", "\"", ":", "2", ",", "\"", "t", "\"", ":", "\"", "c", "\"", "}", "]">>)
        /\ ResponseBody(i) = Record1
        /\ Returned(i) = DataOnly(Arr(<<Num(2), Num(1)>>))

(***************************************************************************)
(* C23.  Every invocation of one of the nine operations calls the HTTP     *)
(* client exactly once when its URL can be built and never more than       *)
(* once, at any point of its run; update issues its PUT and no second      *)
(* request.  The URL cannot be built when the filter handed to the         *)
(* compiler fails.                                                         *)
(***************************************************************************)
Operations ==
    { "getList", "getOne", "getMany", "getManyReference", "update", "updateMany",
      "create", "delete", "deleteMany" }

CanBuildUrl(i) == Query(i).filter.t = "object" => ~FailsCompiler(Query(i).filter.e)

C23_OneRequestPerInvocation ==
    \A i \in Invs : (inv[i].pc # "idle" /\ inv[i].op \in Operations) =>
        /\ Len(inv[i].requests) = IF CanBuildUrl(i) THEN 1 ELSE 0
        /\ (inv[i].op = "update" /\ inv[i].requests # << >>)
              => inv[i].requests[1].options.method = "PUT"

\* update has resolved after its one request, the PUT
C23_Witness ==
    \E i \in Invs :
        /\ Resolved(i, {"update"})
        /\ ResponseBody(i) = Record1
        /\ Len(inv[i].requests) = 1
        /\ inv[i].requests[1].options.method = "PUT"

(***************************************************************************)
(* C24.  When the HTTP client fails, the operation fails with that same    *)
(* error, unmodified: the client is not called again, the error is not     *)
(* wrapped, and no result envelope is returned, also by update,            *)
(* updateMany, delete and deleteMany.                                      *)
(***************************************************************************)
ClientFailed(i) == inv[i].pc # "idle" /\ inv[i].failure # NoFailure

C24_TransportErrorPropagates ==
    \A i \in Invs : ClientFailed(i) =>
        /\ inv[i].pc = "rejected"
        /\ inv[i].outcome = [ok |-> FALSE, err |-> inv[i].failure]
        /\ Len(inv[i].requests) = 1
        /\ inv[i].response = NoResponse

\* updateMany has been rejected with the client's "Failed to fetch"
C24_Witness ==
    \E i \in Invs :
        /\ ClientFailed(i)
        /\ inv[i].op = "updateMany"
        /\ inv[i].failure = [name |-> "TypeError", message |-> "Failed to fetch"]
        /\ inv[i].outcome.err = [name |-> "TypeError", message |-> "Failed to fetch"]

(***************************************************************************)
(* C25.  For any interleaving of concurrent invocations on one provider,   *)
(* each invocation sends the request (URL, method, body) and returns the   *)
(* result it would send and return when run alone with the same response,  *)
(* and the base URL of the provider keeps the value it had after           *)
(* construction.                                                           *)
(***************************************************************************)
\* the URL of invocation i built on the base URL as constructed
UrlAlone(i) ==
    getURL(OneSlashRemoved(ctorArg), inv[i].resource, URLParams(inv[i].op, inv[i].params))

RequestsAlone(i) ==
    IF UrlAlone(i).ok
    THEN <<[url |-> UrlAlone(i).val, options |-> Options(inv[i].op, inv[i].params)]>>
    ELSE << >>

OutcomeAlone(i) ==
    IF ~UrlAlone(i).ok THEN UrlAlone(i)
    ELSE IF inv[i].failure # NoFailure THEN [ok |-> FALSE, err |-> inv[i].failure]
    ELSE IF inv[i].response = NoResponse THEN NoOutcome
    ELSE Result(inv[i].op, inv[i].params, inv[i].response)

C25_InvocationsAreIndependent ==
    /\ apiUrl = OneSlashRemoved(ctorArg)
    /\ \A i \in Tasks : inv[i].pc # "idle" =>
          /\ inv[i].requests = RequestsAlone(i)
          /\ inv[i].outcome = OutcomeAlone(i)

\* an update that started first is still waiting while a getList that
\* started on the same provider has resolved
C25_Witness ==
    /\ ctorArg = <<"a", "/">>
    /\ inv[1].pc = "pending"
    /\ inv[1].op = "update"
    /\ inv[2].pc = "resolved"
    /\ inv[2].op = "getList"
    /\ inv[1].requests[1].url = <<"a", "/", "r", "e", "c", "o", "r", "d", "s", "/", "p", "/", "a">>

(***************************************************************************)
(* C26.  For every field name and every value, the key <field>_eq compiles *)
(* to the same filter clause as the unsuffixed key <field> with the same   *)
(* value.  Stated for non-empty field names and for numbers and booleans   *)
(* as values.                                                              *)
(***************************************************************************)
C26_ExplicitEqualsLikeImplicit ==
    \A i \in Invs : Compiled(i) =>
        \A j \in 1..Len(Input(i)) :
            LET key == Input(i)[j].key
                value == Input(i)[j].value
            IN  (/\ EndsIn(key, <<"_", "e", "q">>)
                 /\ Len(key) > 3
                 /\ value.t \in {"number", "boolean"}
                 /\ Emitted(i).ok)
                => Emitted(i).val[j] = formatFilter(<<Entry(Without(key, 3), value)>>).val[1]

(***************************************************************************)
(* C27.  Parsing the query string produced by formatParams by the standard *)
(* rules (split on "&", then each part on its first "=") yields exactly    *)
(* the (name, value) pairs assembled from order, page, the compiled filter *)
(* clauses and the non-reserved metadata, in that order: no value, also    *)
(* one that holds "&", "=" or "%", adds, removes or alters a parameter.    *)
(***************************************************************************)
AmpsOf(q) == { k \in 1..Len(q) : q[k] = "&" }

\* the position of the n-th "&" of q; 0 for n = 0 and Len(q) + 1 past the last
AmpAt(q, n) ==
    IF n = 0 THEN 0
    ELSE IF n > Cardinality(AmpsOf(q)) THEN Len(q) + 1
    ELSE CHOOSE k \in AmpsOf(q) : Cardinality({ m \in AmpsOf(q) : m < k }) = n - 1

SplitOnAmp(q) ==
    IF q = << >> THEN << >>
    ELSE [n \in 1..(Cardinality(AmpsOf(q)) + 1) |->
            SubSeq(q, AmpAt(q, n - 1) + 1, AmpAt(q, n) - 1)]

SplitOnFirstEquals(part) ==
    LET eqs == { k \in 1..Len(part) : part[k] = "=" }
        at == IF eqs = { } THEN Len(part) + 1 ELSE CHOOSE k \in eqs : \A m \in eqs : k <= m
    IN  <<SubSeq(part, 1, at - 1), SubSeq(part, at + 1, Len(part))>>

ParseQuery(q) == [n \in 1..Len(SplitOnAmp(q)) |-> SplitOnFirstEquals(SplitOnAmp(q)[n])]

\* the pairs with their values as text
AsText(pairs) == [n \in 1..Len(pairs) |-> <<pairs[n][1], ToStr(pairs[n][2])>>]

C27_QueryStringParsesBack ==
    \A i \in Invs : HasQueryText(i) =>
        ParseQuery(QueryText(i))
            = AsText(RestPairs(i) \o ClausePairs(i) \o MetaPairs(Query(i).meta))

(***************************************************************************)
(* C28.  When the caller's filter of getManyReference already holds a key  *)
(* equal to the target field, the request carries exactly one clause for   *)
(* that key, with the reference id as its value and not the caller's       *)
(* value; every other clause of the caller is emitted unchanged.  Stated   *)
(* for target names without an operator suffix (C18).                      *)
(***************************************************************************)
TargetInCallerFilter(i) ==
    /\ Requested(i, {"getManyReference"})
    /\ inv[i].params.filter.t = "object"
    /\ inv[i].params.target \in CallerKeys(inv[i].params)
    /\ Unrecognized(inv[i].params.target)

C28_ReferenceReplacesCallerValue ==
    \A i \in Invs : TargetInCallerFilter(i) =>
        LET caller == inv[i].params.filter.e
            target == inv[i].params.target
        IN  /\ Len(ClausePairs(i)) = Len(caller)
            /\ \A j \in 1..Len(caller) :
                  ClausePairs(i)[j] =
                     IF caller[j].key = target
                     THEN <<FilterName,
                            Str(target \o <<",", "e", "q", ",">> \o IdText(inv[i].params.id))>>
                     ELSE formatFilter(<<caller[j]>>).val[1]
            /\ QueryText(i) = Tail(PairsText(RestPairs(i) \o ClausePairs(i)))

\* getManyReference with target c and id 1 over the caller's filter
\* { c: "a", d_nin: [0, 1] } has asked for filter=c,eq,1&filter=d,nin,0,1
C28_Witness ==
    \E i \in Invs :
        /\ TargetInCallerFilter(i)
        /\ inv[i].params.id = Num(1)
        /\ inv[i].params.filter =
              Obj(<<Entry(<<"c">>, Str(<<"a">>)),
                    Entry(<<"d", "_", "n", "i", "n">>, Arr(<<Num(0), Num(1)>>))>>)
        /\ QueryText(i) = <<"o", "r", "d", "e", "r", "=", "t", ",", "A", "S", "C", "&",
                            "p", "a", "g", "e", "=", "1", ",", "2", "5", "&",
                            "f", "i", "l", "t", "e", "r", "=", "c", ",", "e", "q", ",", "1", "&",
                            "f", "i", "l", "t", "e", "r", "=", "d", ",", "n", "i", "n", ",", "0", ",", "1">>

(***************************************************************************)
(* C29.  For a key <field>_bt or <field>_nbt with an array value of any    *)
(* length, also shorter than two, the emitted clause has exactly two value *)
(* components and each of them is an element of the supplied array.        *)
(* <field> is a non-empty field name.                                      *)
(***************************************************************************)
ElementTexts(a) == { ToStr(a[k]) : k \in 1..Len(a) }

TwoElementsOf(i, j, head, a) ==
    \E x, y \in ElementTexts(a) : EmitsClause(i, j, head \o x \o Comma \o y)

C29_BetweenHasTwoElements ==
    \A i \in Invs : Compiled(i) =>
        \A j \in 1..Len(Input(i)) :
            LET key == Input(i)[j].key
                value == Input(i)[j].value
            IN  /\ (EndsIn(key, <<"_", "b", "t">>) /\ Len(key) > 3 /\ value.t = "array")
                   => TwoElementsOf(i, j, Without(key, 3) \o <<",", "b", "t", ",">>, value.a)
                /\ (EndsIn(key, <<"_", "n", "b", "t">>) /\ Len(key) > 4 /\ value.t = "array")
                   => TwoElementsOf(i, j, Without(key, 4) \o <<",", "n", "b", "t", ",">>, value.a)

====
